---- MODULE Spec2Model ----
(***************************************************************************)
(* A model of simple_server.go: the sliding-window request counter         *)
(* (requestCounter), its durable file, and the goroutines that drive it    *)
(* (request handlers, the periodic updateRequestCounter task, the SIGINT   *)
(* handler and main).                                                      *)
(*                                                                         *)
(* uint64 fields are carried as the representative of least absolute       *)
(* value modulo 2^64: within the bounds of the model every value that has  *)
(* not wrapped is a small natural number, and a negative representative    *)
(* -k stands for the wrapped value 2^64 - k.                               *)
(*                                                                         *)
(* A []uint64 is carried as its length and the set of <<index, value>>     *)
(* pairs of its non-zero elements, indices counted from 0 as in the code.  *)
(***************************************************************************)
EXTENDS Integers, FiniteSets

\* ------------------------------------------------------------------ bounds
NumHandlers == 2     \* request goroutines that may be in flight together
MaxRequests == 2     \* requests accepted over one behaviour
MaxTicks    == 2     \* wake-ups of the periodic task over one behaviour
MaxRuns     == 2     \* process lifetimes over one behaviour
MaxSeqIncr  == 2     \* Increment calls over one behaviour of SpecSeq
MaxBusy     == 2     \* SpecSeq: requests arrive in the first MaxBusy seconds
ScnFirst    == 5     \* the scenario's first burst of Increment calls
ScnSecond   == 3     \* the scenario's second burst of Increment calls

\* --------------------------------------------------------------- constants
WindowSecs == 60     \* timeWindow.Seconds()
DeltasLen  == 60     \* make([]uint64, 60)
StatusOK               == 200
StatusNotFound         == 404
StatusMethodNotAllowed == 405

\* ------------------------------------------------------------- the counter
\* The zero value of the package variable reqCnt (deltas is a nil slice).
NilSlice == [len |-> 0, nz |-> {}]
ZeroCounter ==
  [timeLapseReqNo |-> 0, timeWindowReqNo |-> 0, deltaIdx |-> 0,
   deltas |-> NilSlice]

\* make([]uint64, n)
MakeDeltas(n) == [len |-> n, nz |-> {}]

\* s[i] and s[i] = v, for an index within the slice.
At(s, i) ==
  LET hit == {p \in s.nz : p[1] = i}
  IN  IF hit = {} THEN 0 ELSE (CHOOSE p \in hit : TRUE)[2]
Put(s, i, v) ==
  [s EXCEPT !.nz = {p \in @ : p[1] # i} \cup (IF v = 0 THEN {} ELSE {<<i, v>>})]

\* uint64 subtraction and addition (see the note on representatives above).
U64Sub(a, b) == a - b
U64Add(a, b) == a + b

\* A uint64 value that has wrapped below zero.
Wrapped(x) == x < 0

RECURSIVE SumPairs(_)
SumPairs(ps) ==
  IF ps = {} THEN 0
  ELSE LET p == CHOOSE q \in ps : TRUE IN p[2] + SumPairs(ps \ {p})

\* The sum of the elements of a slice.
SumSeq(s) == SumPairs(s.nz)

\* c.timeLapseReqNo++ as the load and the store it compiles to.
LoadLapse(c) == c.timeLapseReqNo
StoreLapseAndWindow(c, v) ==
  [c EXCEPT !.timeLapseReqNo = v + 1, !.timeWindowReqNo = @ + 1]
StoreLapse(c, v) == [c EXCEPT !.timeLapseReqNo = v + 1]

\* increment(), between Lock and Unlock.
increment(c) == StoreLapse(c, LoadLapse(c))

\* reqCnt.timeWindowReqNo + reqCnt.timeLapseReqNo, left operand read first.
LoadWindow(c) == c.timeWindowReqNo
AddLapse(w, c) == U64Add(w, c.timeLapseReqNo)
WindowTotal(c) == AddLapse(LoadWindow(c), c)

\* updateTimeWindow(), statement by statement.
WrapIdx(c) == IF c.deltaIdx = WindowSecs THEN [c EXCEPT !.deltaIdx = 0] ELSE c

\* The bounds check of c.deltas[c.deltaIdx].
IdxInRange(c) == c.deltaIdx < c.deltas.len

SubOldDeltaSkipped(c) == c
SubOldDelta(c) ==
  [c EXCEPT !.timeWindowReqNo = U64Sub(@, At(c.deltas, c.deltaIdx))]

AddNewDelta(c) ==
  [c EXCEPT !.timeWindowReqNo = U64Add(@, c.timeLapseReqNo)]

StoreDeltaAtZero(c) == [c EXCEPT !.deltas = Put(@, 0, c.timeLapseReqNo)]
StoreDelta(c) == [c EXCEPT !.deltas = Put(@, c.deltaIdx, c.timeLapseReqNo)]

ResetLapseSkipped(c) == c
ResetLapse(c) == [c EXCEPT !.timeLapseReqNo = 0]

NextIdxModulo(c) == [c EXCEPT !.deltaIdx = (@ + 1) % WindowSecs]
NextIdxStuck(c) == c
NextIdx(c) == [c EXCEPT !.deltaIdx = @ + 1]

\* updateTimeWindow(), between Lock and Unlock (the index is in range).
updateTimeWindow(c) ==
  NextIdx(ResetLapse(StoreDelta(AddNewDelta(SubOldDelta(WrapIdx(c))))))

\* ---------------------------------------------------------- the durable file
\* The request count file: absent, holding no bytes (created or truncated
\* and not yet written), holding bytes that are no JSON document, or holding
\* the JSON encoding of a jsonData value.
FileOf(kind, idx, ds, total) ==
  [kind |-> kind, DeltaIdx |-> idx, Deltas |-> ds, TimeWindowReqNo |-> total]
NoFile      == FileOf("absent", 0, NilSlice, 0)
EmptyFile   == FileOf("empty", 0, NilSlice, 0)
GarbageFile == FileOf("garbage", 0, NilSlice, 0)

\* jsonData{c.deltaIdx, c.deltas, c.timeWindowReqNo} and json.Marshal of it.
MarshalWithLapse(c) ==
  FileOf("json", c.deltaIdx, c.deltas, U64Add(c.timeWindowReqNo, c.timeLapseReqNo))
Marshal(c) == FileOf("json", c.deltaIdx, c.deltas, c.timeWindowReqNo)

\* copy(dst, src): the first min(len(dst), len(src)) elements of src.
copy(dst, src) ==
  [dst EXCEPT !.nz = {p \in src.nz : p[1] < dst.len}
                       \cup {p \in @ : p[1] >= src.len}]

\* abort(action, err): log.Fatalln when err is not nil.  An error is "nil",
\* or named after the call that returned it: "open", "decode", "write".
abortNever(err) == FALSE
abort(err) == err # "nil"

\* os.Stat(requestFile) returns an error: the file does not exist, or it
\* exists and Stat fails all the same (statOk is FALSE: a directory that
\* cannot be searched, a symbolic link loop, an input/output error).
StatFailsNever(f, statOk) == FALSE
StatFails(f, statOk) == f.kind = "absent" \/ ~statOk

\* The error of json.NewDecoder(data).Decode(&jsonData).
DecodeErr(f) == IF f.kind = "json" THEN "nil" ELSE "decode"

\* The jsonData value after Decode (the zero value when nothing was decoded).
Decoded(f) ==
  IF f.kind = "json"
    THEN [DeltaIdx |-> f.DeltaIdx, Deltas |-> f.Deltas,
          TimeWindowReqNo |-> f.TimeWindowReqNo]
    ELSE [DeltaIdx |-> 0, Deltas |-> NilSlice, TimeWindowReqNo |-> 0]

\* "Load the JSON data".
Install(c, j) ==
  [c EXCEPT !.deltaIdx = j.DeltaIdx,
            !.deltas = copy(@, j.Deltas),
            !.timeWindowReqNo = j.TimeWindowReqNo]

\* loadFile().  statOk is whether os.Stat succeeds on a file that exists,
\* openOk whether os.Open succeeds.  The result is the error that kept a file
\* that exists from being loaded ("nil" when the file is absent or was
\* loaded; "stat" is the only one abort() is not given), whether the process
\* was halted, and the counter.
loadFile(c, f, statOk, openOk) ==
  LET err == IF ~openOk THEN "open" ELSE DecodeErr(f)
  IN  IF StatFails(f, statOk)
        THEN [err |-> IF f.kind = "absent" THEN "nil" ELSE "stat",
              fatal |-> FALSE, c |-> c]
        ELSE [err |-> err, fatal |-> abort(err),
              c |-> IF abort(err) THEN c
                    ELSE Install(c, IF openOk THEN Decoded(f) ELSE Decoded(NoFile))]

\* init(): make the slice, then loadFile().
initCounter(c, f, statOk, openOk) ==
  loadFile([c EXCEPT !.deltas = MakeDeltas(DeltasLen)], f, statOk, openOk)

\* ------------------------------------------------------------------- state
VARIABLES
  reqCnt,     \* the package variable reqCnt, without its mutex
  cntMutex,   \* reqCnt.cntMutex: Unlocked, or the goroutine that locked it
  file,       \* the request count file
  pcMain,     \* where main() is
  pc,         \* where every other goroutine is
  tmp,        \* per handler: the operand it has loaded
  resp,       \* per handler: the status and the count it has written
  buf,        \* per flushing goroutine: the bytes json.Marshal returned
  shot,       \* history: the counter as it stood when buf was marshalled
  snap,       \* history: the counter as marshalled by the last completed write
  exitBy,     \* history: why the process exited
  loadErr,    \* history: the error that kept loadFile() from loading a file
              \* that exists, in this run
  wrErr,      \* history: the first error ioutil.WriteFile returned in this run
  incDone,    \* history: increment() calls that returned in this run
  rotated,    \* history: sum of the values updateTimeWindow() stored in this run
  base,       \* history: the total as the last updateTimeWindow() left it
  sinceRot,   \* history: increment() calls that returned since then
  contended,  \* history: an increment() since then waited for another one
  quiet,      \* history: updateTimeWindow() calls since the last increment()
  unflushed,  \* history: updateTimeWindow() calls that have returned, less
              \*          the periodic task's updateFile() calls that have
  gets,       \* history: GET requests for "/" accepted in this run
  recent,     \* history: <<age, value>> of the non-zero values stored by the
              \*          last WindowSecs updateTimeWindow() calls of this run
  flushed,    \* history: an updateFile() call has returned in this run
  ticks,      \* wake-ups of the periodic task so far (counted up to a bound)
  requests,   \* requests accepted so far
  runs,       \* process lifetimes so far
  scn         \* the scenario's script position

counterVars == <<reqCnt, cntMutex>>
localVars   == <<tmp, resp, buf, shot>>
callVars    == <<unflushed, gets, recent, flushed>>
histVars    == <<incDone, rotated, base, sinceRot, contended, quiet, callVars>>
runVars     == <<exitBy, loadErr, wrErr>>
capVars     == <<ticks, requests, runs>>
vars == <<reqCnt, cntMutex, file, pcMain, pc, tmp, resp, buf, shot, snap,
          exitBy, loadErr, wrErr, incDone, rotated, base, sinceRot, contended,
          quiet, unflushed, gets, recent, flushed, ticks, requests, runs, scn>>

\* The goroutines besides main: one per request in flight, the periodic
\* task (go updateRequestCounter()) and the signal task (go handleSingInt(c)).
Handlers == 1..NumHandlers
Ticker   == NumHandlers + 1
SigH     == NumHandlers + 2
Flushers == {Ticker, SigH}
Procs    == Handlers \cup Flushers

\* The zero value of sync.Mutex is an unlocked mutex.
Unlocked == 0

\* cntMutex.Lock() returns only once the mutex is unlocked.
CanLockAlways(m) == TRUE
CanLock(m) == m = Unlocked

\* mux: the registered resources.
RegisteredAll(url) == TRUE
Registered(url) == url = "/"
Urls    == {"/", "/other"}
Methods == {"GET", "POST"}

NoResp == [status |-> 0, count |-> 0]
NoSnap == [valid |-> FALSE, c |-> ZeroCounter, by |-> 0]

\* The values stored by the last WindowSecs updateTimeWindow() calls, once
\* one more call has stored n.
Aged(r, n) ==
  {<<q[1] + 1, q[2]>> : q \in {p \in r : p[1] < WindowSecs}}
    \cup (IF n = 0 THEN {} ELSE {<<1, n>>})

\* Process start: every package variable at its zero value, no goroutine yet.
Fresh ==
  /\ reqCnt = ZeroCounter
  /\ cntMutex = Unlocked
  /\ pcMain = "init"
  /\ pc = [p \in Procs |-> "off"]
  /\ tmp = [h \in Handlers |-> 0]
  /\ resp = [h \in Handlers |-> NoResp]
  /\ buf = [p \in Flushers |-> NoFile]
  /\ shot = [p \in Flushers |-> ZeroCounter]
  /\ exitBy = "none"
  /\ loadErr = "nil"
  /\ wrErr = "nil"
  /\ incDone = 0
  /\ rotated = 0
  /\ base = 0
  /\ sinceRot = 0
  /\ contended = FALSE
  /\ quiet = 0
  /\ unflushed = 0
  /\ gets = 0
  /\ recent = {}
  /\ flushed = FALSE

\* A file an earlier run of the process left behind, one rotation before the
\* index reaches the end of the window: one request in the first second,
\* then 58 seconds without any (SpecSeq reaches this counter and this file
\* from a cold start: see PriorRunReached).
PriorRunCounter ==
  [timeLapseReqNo |-> 0, timeWindowReqNo |-> 1, deltaIdx |-> WindowSecs - 1,
   deltas |-> Put(MakeDeltas(DeltasLen), 0, 1)]
PriorRunFile == Marshal(PriorRunCounter)

InitFiles == {NoFile, GarbageFile, PriorRunFile}

Init ==
  /\ Fresh
  /\ file \in InitFiles
  /\ snap = NoSnap
  /\ ticks = 0
  /\ requests = 0
  /\ runs = 1
  /\ scn = [phase |-> 0, first |-> 0, second |-> 0, rots |-> 0]

\* The process ends (os.Exit, log.Fatalln, a runtime panic): its memory and
\* its goroutines are gone, the file stays as it is.
Exit(why) ==
  /\ reqCnt' = ZeroCounter
  /\ cntMutex' = Unlocked
  /\ pcMain' = "exited"
  /\ pc' = [p \in Procs |-> "off"]
  /\ tmp' = [h \in Handlers |-> 0]
  /\ resp' = [h \in Handlers |-> NoResp]
  /\ buf' = [p \in Flushers |-> NoFile]
  /\ shot' = [p \in Flushers |-> ZeroCounter]
  /\ exitBy' = why
  /\ incDone' = 0
  /\ rotated' = 0
  /\ base' = 0
  /\ sinceRot' = 0
  /\ contended' = FALSE
  /\ quiet' = 0
  /\ unflushed' = 0
  /\ gets' = 0
  /\ recent' = {}
  /\ flushed' = FALSE

\* The operator starts the program again.
Restart ==
  /\ pcMain = "exited"
  /\ runs < MaxRuns
  /\ runs' = runs + 1
  /\ pcMain' = "init"
  /\ exitBy' = "none"
  /\ loadErr' = "nil"
  /\ wrErr' = "nil"
  /\ UNCHANGED <<counterVars, file, pc, localVars, snap, histVars, ticks,
                 requests, scn>>

\* ------------------------------------------------------------------- main
\* reqCnt.init(): a fatal error halts the process, else the counter is set.
\* os.Stat and os.Open may each succeed or fail on a file that exists.
InitCounter ==
  /\ pcMain = "init"
  /\ \E statOk \in BOOLEAN, openOk \in BOOLEAN :
       LET r == initCounter(reqCnt, file, statOk, openOk) IN
         /\ loadErr' = r.err
         /\ IF r.fatal
              THEN /\ Exit("load")
                   /\ UNCHANGED <<file, snap, wrErr, capVars, scn>>
              ELSE /\ reqCnt' = r.c
                   /\ base' = WindowTotal(r.c)
                   /\ pcMain' = "loaded"
                   /\ UNCHANGED <<cntMutex, file, pc, localVars, snap, exitBy,
                                  wrErr, incDone, rotated, sinceRot, contended,
                                  quiet, callVars, capVars, scn>>

\* go updateRequestCounter(); signal.Notify; go handleSingInt(c).
StartTasks ==
  /\ pcMain = "loaded"
  /\ pcMain' = "listen"
  /\ pc' = [pc EXCEPT ![Ticker] = "sleep", ![SigH] = "wait"]
  /\ UNCHANGED <<counterVars, file, localVars, snap, runVars, histVars,
                 capVars, scn>>

\* server.ListenAndServe() starts to accept connections.
Listen ==
  /\ pcMain = "listen"
  /\ pcMain' = "serving"
  /\ pc' = [p \in Procs |-> IF p \in Handlers THEN "idle" ELSE pc[p]]
  /\ UNCHANGED <<counterVars, file, localVars, snap, runVars, histVars,
                 capVars, scn>>

\* server.ListenAndServe() returns: log.Fatalln("Server Close Error - ", ...).
ServerClose ==
  /\ pcMain \in {"listen", "serving"}
  /\ Exit("server")
  /\ UNCHANGED <<file, snap, loadErr, wrErr, capVars, scn>>

\* --------------------------------------------------------- request handlers
\* handlerDispatcher.ServeHTTP and the method check of printRequestNo: an
\* unregistered resource is answered 404, a method other than GET 405, and a
\* GET goes on to reqCnt.increment().
ServeHTTP(h) ==
  /\ pcMain = "serving"
  /\ pc[h] = "idle"
  /\ requests < MaxRequests
  /\ requests' = requests + 1
  /\ \E url \in Urls, method \in Methods :
       /\ IF ~Registered(url)
            THEN /\ resp' = [resp EXCEPT ![h] =
                               [status |-> StatusNotFound, count |-> 0]]
                 /\ pc' = [pc EXCEPT ![h] = "done"]
            ELSE IF method # "GET"
              THEN /\ resp' = [resp EXCEPT ![h] =
                                 [status |-> StatusMethodNotAllowed, count |-> 0]]
                   /\ pc' = [pc EXCEPT ![h] = "done"]
              ELSE /\ resp' = resp
                   /\ pc' = [pc EXCEPT ![h] = "inc_lock"]
       /\ gets' = IF url = "/" /\ method = "GET" THEN gets + 1 ELSE gets
  /\ UNCHANGED <<counterVars, file, pcMain, tmp, buf, shot, snap, runVars,
                 incDone, rotated, base, sinceRot, contended, quiet, unflushed,
                 recent, flushed, ticks, runs, scn>>

\* increment(): c.cntMutex.Lock()
IncLock(h) ==
  /\ pc[h] = "inc_lock"
  /\ CanLock(cntMutex)
  /\ cntMutex' = h
  /\ pc' = [pc EXCEPT ![h] = "inc_load"]
  /\ contended' = (contended \/ \E g \in Handlers \ {h} : pc[g] = "inc_lock")
  /\ UNCHANGED <<reqCnt, file, pcMain, localVars, snap, runVars, incDone,
                 rotated, base, sinceRot, quiet, callVars, capVars, scn>>

\* increment(): c.timeLapseReqNo++, the load
IncLoad(h) ==
  /\ pc[h] = "inc_load"
  /\ tmp' = [tmp EXCEPT ![h] = LoadLapse(reqCnt)]
  /\ pc' = [pc EXCEPT ![h] = "inc_store"]
  /\ UNCHANGED <<counterVars, file, pcMain, resp, buf, shot, snap, runVars,
                 histVars, capVars, scn>>

\* increment(): c.timeLapseReqNo++, the store
IncStore(h) ==
  /\ pc[h] = "inc_store"
  /\ reqCnt' = StoreLapse(reqCnt, tmp[h])
  /\ tmp' = [tmp EXCEPT ![h] = 0]
  /\ pc' = [pc EXCEPT ![h] = "inc_unlock"]
  /\ quiet' = 0
  /\ UNCHANGED <<cntMutex, file, pcMain, resp, buf, shot, snap, runVars,
                 incDone, rotated, base, sinceRot, contended, callVars, capVars,
                 scn>>

\* increment(): c.cntMutex.Unlock(), and the call returns
IncUnlock(h) ==
  /\ pc[h] = "inc_unlock"
  /\ cntMutex' = Unlocked
  /\ pc' = [pc EXCEPT ![h] = "header"]
  /\ incDone' = incDone + 1
  /\ sinceRot' = sinceRot + 1
  /\ UNCHANGED <<reqCnt, file, pcMain, localVars, snap, runVars, rotated,
                 base, contended, quiet, callVars, capVars, scn>>

\* w.WriteHeader(http.StatusOK)
WriteHeader(h) ==
  /\ pc[h] = "header"
  /\ resp' = [resp EXCEPT ![h].status = StatusOK]
  /\ pc' = [pc EXCEPT ![h] = "rd_lock"]
  /\ UNCHANGED <<counterVars, file, pcMain, tmp, buf, shot, snap, runVars,
                 histVars, capVars, scn>>

\* printRequestNo: reqCnt.cntMutex.Lock()
RdLock(h) ==
  /\ pc[h] = "rd_lock"
  /\ CanLock(cntMutex)
  /\ cntMutex' = h
  /\ pc' = [pc EXCEPT ![h] = "rd_window"]
  /\ UNCHANGED <<reqCnt, file, pcMain, localVars, snap, runVars, histVars,
                 capVars, scn>>

\* printRequestNo: the load of reqCnt.timeWindowReqNo
RdWindow(h) ==
  /\ pc[h] = "rd_window"
  /\ tmp' = [tmp EXCEPT ![h] = LoadWindow(reqCnt)]
  /\ pc' = [pc EXCEPT ![h] = "rd_lapse"]
  /\ UNCHANGED <<counterVars, file, pcMain, resp, buf, shot, snap, runVars,
                 histVars, capVars, scn>>

\* printRequestNo: the load of reqCnt.timeLapseReqNo, the sum, and Fprintf
RdLapse(h) ==
  /\ pc[h] = "rd_lapse"
  /\ resp' = [resp EXCEPT ![h].count = AddLapse(tmp[h], reqCnt)]
  /\ tmp' = [tmp EXCEPT ![h] = 0]
  /\ pc' = [pc EXCEPT ![h] = "rd_unlock"]
  /\ UNCHANGED <<counterVars, file, pcMain, buf, shot, snap, runVars,
                 histVars, capVars, scn>>

\* printRequestNo: reqCnt.cntMutex.Unlock()
RdUnlock(h) ==
  /\ pc[h] = "rd_unlock"
  /\ cntMutex' = Unlocked
  /\ pc' = [pc EXCEPT ![h] = "done"]
  /\ UNCHANGED <<reqCnt, file, pcMain, localVars, snap, runVars, histVars,
                 capVars, scn>>

\* The handler returns (after the time line of a 200 response) and the
\* goroutine is free for the next request.
Finish(h) ==
  /\ pc[h] = "done"
  /\ pc' = [pc EXCEPT ![h] = "idle"]
  /\ resp' = [resp EXCEPT ![h] = NoResp]
  /\ UNCHANGED <<counterVars, file, pcMain, tmp, buf, shot, snap, runVars,
                 histVars, capVars, scn>>

\* -------------------------------------------------------- the periodic task
\* updateRequestCounter: time.Sleep(timeLapse) returns
Tick ==
  /\ pc[Ticker] = "sleep"
  /\ ticks < MaxTicks
  /\ ticks' = ticks + 1
  /\ pc' = [pc EXCEPT ![Ticker] = "rot_lock"]
  /\ UNCHANGED <<counterVars, file, pcMain, localVars, snap, runVars,
                 histVars, requests, runs, scn>>

\* updateTimeWindow: c.cntMutex.Lock()
RotLock ==
  /\ pc[Ticker] = "rot_lock"
  /\ CanLock(cntMutex)
  /\ cntMutex' = Ticker
  /\ pc' = [pc EXCEPT ![Ticker] = "rot_wrap"]
  /\ UNCHANGED <<reqCnt, file, pcMain, localVars, snap, runVars, histVars,
                 capVars, scn>>

\* updateTimeWindow: if float64(c.deltaIdx) == timeWindow.Seconds() {...}
RotWrap ==
  /\ pc[Ticker] = "rot_wrap"
  /\ reqCnt' = WrapIdx(reqCnt)
  /\ pc' = [pc EXCEPT ![Ticker] = "rot_sub"]
  /\ UNCHANGED <<cntMutex, file, pcMain, localVars, snap, runVars, histVars,
                 capVars, scn>>

\* updateTimeWindow: c.timeWindowReqNo -= c.deltas[c.deltaIdx]; an index out
\* of range is a runtime panic, which ends the process.
RotSub ==
  /\ pc[Ticker] = "rot_sub"
  /\ IF IdxInRange(reqCnt)
       THEN /\ reqCnt' = SubOldDelta(reqCnt)
            /\ pc' = [pc EXCEPT ![Ticker] = "rot_add"]
            /\ UNCHANGED <<cntMutex, pcMain, localVars, exitBy, histVars>>
       ELSE Exit("panic")
  /\ UNCHANGED <<file, snap, loadErr, wrErr, capVars, scn>>

\* updateTimeWindow: c.timeWindowReqNo += c.timeLapseReqNo
RotAdd ==
  /\ pc[Ticker] = "rot_add"
  /\ reqCnt' = AddNewDelta(reqCnt)
  /\ pc' = [pc EXCEPT ![Ticker] = "rot_store"]
  /\ UNCHANGED <<cntMutex, file, pcMain, localVars, snap, runVars, histVars,
                 capVars, scn>>

\* updateTimeWindow: c.deltas[c.deltaIdx] = c.timeLapseReqNo
RotStore ==
  /\ pc[Ticker] = "rot_store"
  /\ reqCnt' = StoreDelta(reqCnt)
  /\ rotated' = rotated + reqCnt.timeLapseReqNo
  /\ recent' = Aged(recent, reqCnt.timeLapseReqNo)
  /\ pc' = [pc EXCEPT ![Ticker] = "rot_reset"]
  /\ UNCHANGED <<cntMutex, file, pcMain, localVars, snap, runVars, incDone,
                 base, sinceRot, contended, quiet, unflushed, gets, flushed,
                 capVars, scn>>

\* updateTimeWindow: c.timeLapseReqNo = 0
RotReset ==
  /\ pc[Ticker] = "rot_reset"
  /\ reqCnt' = ResetLapse(reqCnt)
  /\ pc' = [pc EXCEPT ![Ticker] = "rot_next"]
  /\ UNCHANGED <<cntMutex, file, pcMain, localVars, snap, runVars, histVars,
                 capVars, scn>>

\* updateTimeWindow: c.deltaIdx++
RotNext ==
  /\ pc[Ticker] = "rot_next"
  /\ reqCnt' = NextIdx(reqCnt)
  /\ pc' = [pc EXCEPT ![Ticker] = "rot_unlock"]
  /\ UNCHANGED <<cntMutex, file, pcMain, localVars, snap, runVars, histVars,
                 capVars, scn>>

\* updateTimeWindow: c.cntMutex.Unlock(), and the call returns
RotUnlock ==
  /\ pc[Ticker] = "rot_unlock"
  /\ cntMutex' = Unlocked
  /\ pc' = [pc EXCEPT ![Ticker] = "fl_lock"]
  /\ base' = WindowTotal(reqCnt)
  /\ sinceRot' = 0
  /\ contended' = FALSE
  /\ quiet' = IF quiet > WindowSecs THEN quiet ELSE quiet + 1
  /\ unflushed' = unflushed + 1
  /\ UNCHANGED <<reqCnt, file, pcMain, localVars, snap, runVars, incDone,
                 rotated, gets, recent, flushed, capVars, scn>>

\* ------------------------------------------------------------- updateFile
\* updateFile: c.cntMutex.Lock()
FlLock(p) ==
  /\ pc[p] = "fl_lock"
  /\ CanLock(cntMutex)
  /\ cntMutex' = p
  /\ pc' = [pc EXCEPT ![p] = "fl_marshal"]
  /\ UNCHANGED <<reqCnt, file, pcMain, localVars, snap, runVars, histVars,
                 capVars, scn>>

\* updateFile: jsonData{...} and json.Marshal, which cannot fail on it
FlMarshal(p) ==
  /\ pc[p] = "fl_marshal"
  /\ buf' = [buf EXCEPT ![p] = Marshal(reqCnt)]
  /\ shot' = [shot EXCEPT ![p] = reqCnt]
  /\ pc' = [pc EXCEPT ![p] = "fl_open"]
  /\ UNCHANGED <<counterVars, file, pcMain, tmp, resp, snap, runVars,
                 histVars, capVars, scn>>

\* What a flushing goroutine does once updateFile has returned.
AfterFlushAgain(p) == IF p = Ticker THEN "fl_lock" ELSE "sig_exit"
AfterFlushWaits(p) == IF p = Ticker THEN "sleep" ELSE "wait"
AfterFlush(p) == IF p = Ticker THEN "sleep" ELSE "sig_exit"

\* ioutil.WriteFile: the file is created or truncated; when that fails the
\* file is as it was and abort("update", err) halts the process.
FlOpen(p) ==
  /\ pc[p] = "fl_open"
  /\ \E ok \in BOOLEAN :
       /\ IF ok
            THEN /\ file' = EmptyFile
                 /\ pc' = [pc EXCEPT ![p] = "fl_write"]
                 /\ UNCHANGED <<counterVars, pcMain, localVars, exitBy, histVars>>
            ELSE IF abort("write")
              THEN /\ Exit("write")
                   /\ file' = file
              ELSE /\ pc' = [pc EXCEPT ![p] = "fl_unlock"]
                   /\ UNCHANGED <<counterVars, file, pcMain, localVars, exitBy,
                                  histVars>>
       /\ wrErr' = IF ok \/ wrErr # "nil" THEN wrErr ELSE "write"
  /\ UNCHANGED <<snap, loadErr, capVars, scn>>

\* ioutil.WriteFile: the bytes are written; when that fails the file stays
\* truncated and abort("update", err) halts the process.
FlWrite(p) ==
  /\ pc[p] = "fl_write"
  /\ \E ok \in BOOLEAN :
       /\ IF ok
            THEN /\ file' = buf[p]
                 /\ snap' = [valid |-> TRUE, c |-> shot[p], by |-> p]
                 /\ pc' = [pc EXCEPT ![p] = "fl_unlock"]
                 /\ UNCHANGED <<counterVars, pcMain, localVars, exitBy, histVars>>
            ELSE IF abort("write")
              THEN /\ Exit("write")
                   /\ UNCHANGED <<file, snap>>
              ELSE /\ pc' = [pc EXCEPT ![p] = "fl_unlock"]
                   /\ UNCHANGED <<counterVars, file, snap, pcMain, localVars,
                                  exitBy, histVars>>
       /\ wrErr' = IF ok \/ wrErr # "nil" THEN wrErr ELSE "write"
  /\ UNCHANGED <<loadErr, capVars, scn>>

\* updateFile: the deferred c.cntMutex.Unlock(), and the call returns
FlUnlock(p) ==
  /\ pc[p] = "fl_unlock"
  /\ cntMutex' = Unlocked
  /\ buf' = [buf EXCEPT ![p] = NoFile]
  /\ shot' = [shot EXCEPT ![p] = ZeroCounter]
  /\ pc' = [pc EXCEPT ![p] = AfterFlush(p)]
  /\ unflushed' = IF p = Ticker THEN unflushed - 1 ELSE unflushed
  /\ flushed' = TRUE
  /\ UNCHANGED <<reqCnt, file, pcMain, tmp, resp, snap, runVars, incDone,
                 rotated, base, sinceRot, contended, quiet, gets, recent,
                 capVars, scn>>

\* ---------------------------------------------------------- the signal task
\* handleSingInt: sig := <-c with sig == os.Interrupt
SigInt ==
  /\ pc[SigH] = "wait"
  /\ pc' = [pc EXCEPT ![SigH] = "fl_lock"]
  /\ UNCHANGED <<counterVars, file, pcMain, localVars, snap, runVars,
                 histVars, capVars, scn>>

\* handleSingInt: log.Println("Stopping server..."); os.Exit(0)
SigExit ==
  /\ pc[SigH] = "sig_exit"
  /\ Exit("sigint")
  /\ UNCHANGED <<file, snap, loadErr, wrErr, capVars, scn>>

\* ------------------------------------------------------------ the program
Next ==
  \/ InitCounter
  \/ StartTasks
  \/ Listen
  \/ ServerClose
  \/ Restart
  \/ \E h \in Handlers :
       \/ ServeHTTP(h)
       \/ IncLock(h)
       \/ IncLoad(h)
       \/ IncStore(h)
       \/ IncUnlock(h)
       \/ WriteHeader(h)
       \/ RdLock(h)
       \/ RdWindow(h)
       \/ RdLapse(h)
       \/ RdUnlock(h)
       \/ Finish(h)
  \/ Tick
  \/ RotLock
  \/ RotWrap
  \/ RotSub
  \/ RotAdd
  \/ RotStore
  \/ RotReset
  \/ RotNext
  \/ RotUnlock
  \/ \E p \in Flushers :
       \/ FlLock(p)
       \/ FlMarshal(p)
       \/ FlOpen(p)
       \/ FlWrite(p)
       \/ FlUnlock(p)
  \/ SigInt
  \/ SigExit

Spec == Init /\ [][Next]_vars

\* ------------------------------------------------- the operations, undivided
\* The same program with each call that works on memory alone (increment(),
\* the read of printRequestNo, updateTimeWindow()) taken as one step from
\* Lock() to Unlock(), which is how these calls appear to one another while
\* cntMutex serialises them.  updateFile() works on the file, which outlives
\* the process, and the process can end while it is inside ioutil.WriteFile:
\* it keeps its steps (FlLock to FlUnlock).

\* reqCnt.increment()
SeqIncrement ==
  /\ pcMain = "serving"
  /\ CanLock(cntMutex)
  /\ requests < MaxSeqIncr
  /\ ticks < MaxBusy
  /\ requests' = requests + 1
  /\ reqCnt' = increment(reqCnt)
  /\ incDone' = incDone + 1
  /\ sinceRot' = sinceRot + 1
  /\ quiet' = 0
  /\ gets' = gets + 1
  /\ UNCHANGED <<cntMutex, file, pcMain, pc, localVars, snap, runVars, rotated,
                 base, contended, unflushed, recent, flushed, ticks, runs, scn>>

\* The read of printRequestNo: timeWindowReqNo + timeLapseReqNo
SeqWindowTotal(h) ==
  /\ pcMain = "serving"
  /\ CanLock(cntMutex)
  /\ \A g \in Handlers : pc[g] = "idle"
  /\ resp' = [resp EXCEPT ![h] = [status |-> StatusOK, count |-> WindowTotal(reqCnt)]]
  /\ pc' = [pc EXCEPT ![h] = "done"]
  /\ UNCHANGED <<counterVars, file, pcMain, tmp, buf, shot, snap, runVars,
                 histVars, capVars, scn>>

\* reqCnt.updateTimeWindow()
SeqRotate ==
  /\ pc[Ticker] = "sleep"
  /\ CanLock(cntMutex)
  /\ IF IdxInRange(WrapIdx(reqCnt))
       THEN /\ reqCnt' = updateTimeWindow(reqCnt)
            /\ rotated' = rotated + reqCnt.timeLapseReqNo
            /\ base' = WindowTotal(updateTimeWindow(reqCnt))
            /\ sinceRot' = 0
            /\ quiet' = IF quiet > WindowSecs THEN quiet ELSE quiet + 1
            /\ recent' = Aged(recent, reqCnt.timeLapseReqNo)
            /\ unflushed' = unflushed + 1
            /\ pc' = [pc EXCEPT ![Ticker] = "fl_lock"]
            /\ UNCHANGED <<cntMutex, pcMain, localVars, exitBy, incDone,
                           contended, gets, flushed>>
       ELSE Exit("panic")
  /\ ticks' = IF ticks < MaxBusy THEN ticks + 1 ELSE ticks
  /\ UNCHANGED <<file, snap, loadErr, wrErr, requests, runs, scn>>

InitSeq ==
  /\ Fresh
  /\ file = NoFile
  /\ snap = NoSnap
  /\ ticks = 0
  /\ requests = 0
  /\ runs = 1
  /\ scn = [phase |-> 0, first |-> 0, second |-> 0, rots |-> 0]

NextSeq ==
  \/ InitCounter
  \/ StartTasks
  \/ Listen
  \/ ServerClose
  \/ SeqIncrement
  \/ \E h \in Handlers :
       \/ SeqWindowTotal(h)
       \/ Finish(h)
  \/ SeqRotate
  \/ \E p \in Flushers :
       \/ FlLock(p)
       \/ FlMarshal(p)
       \/ FlOpen(p)
       \/ FlWrite(p)
       \/ FlUnlock(p)
  \/ SigInt
  \/ SigExit

SpecSeq == InitSeq /\ [][NextSeq]_vars

\* ------------------------------------------------------------- scheduling
\* The Go scheduler runs every runnable goroutine, so a step that needs no
\* lock is taken if it stays possible.  sync.Mutex hands the mutex to a
\* goroutine that has waited for it (starvation mode), so a Lock() returns if
\* the mutex is free again and again; the weaker condition stated here, that
\* it returns if the mutex stays free, is all the properties below need.
\* Nothing obliges a request, a signal or a server error to arrive, or the
\* operator to start the program again.
MainRun == InitCounter \/ StartTasks \/ Listen

HandlerRun(h) ==
  \/ IncLoad(h) \/ IncStore(h) \/ IncUnlock(h) \/ WriteHeader(h)
  \/ RdWindow(h) \/ RdLapse(h) \/ RdUnlock(h) \/ Finish(h)
HandlerLock(h) == IncLock(h) \/ RdLock(h)

FlushRun(p) == FlMarshal(p) \/ FlOpen(p) \/ FlWrite(p) \/ FlUnlock(p)

TickerRun ==
  \/ Tick \/ RotWrap \/ RotSub \/ RotAdd \/ RotStore \/ RotReset \/ RotNext
  \/ RotUnlock \/ FlushRun(Ticker)
TickerLock == RotLock \/ FlLock(Ticker)

SigRun == FlushRun(SigH) \/ SigExit
SigLock == FlLock(SigH)

Fairness ==
  /\ WF_vars(MainRun)
  /\ \A h \in Handlers : WF_vars(HandlerRun(h)) /\ WF_vars(HandlerLock(h))
  /\ WF_vars(TickerRun) /\ WF_vars(TickerLock)
  /\ WF_vars(SigRun) /\ WF_vars(SigLock)

\* One lifetime of the process, from a start with no file.
NextRun ==
  \/ MainRun
  \/ ServerClose
  \/ \E h \in Handlers : ServeHTTP(h) \/ HandlerLock(h) \/ HandlerRun(h)
  \/ TickerLock
  \/ TickerRun
  \/ SigInt
  \/ SigLock
  \/ SigRun

SpecFair == InitSeq /\ [][NextRun]_vars /\ Fairness

\* ------------------------------------------------------ files from elsewhere
\* Files that decode as jsonData and that no run of the program wrote: a
\* DeltaIdx beyond the window, a Deltas array of one element, a Deltas array
\* of one element too many, and a TimeWindowReqNo smaller than the sum of
\* Deltas.
ForeignFiles ==
  {FileOf("json", WindowSecs + 1, MakeDeltas(DeltasLen), 0),
   FileOf("json", 0, Put(MakeDeltas(1), 0, 1), 1),
   FileOf("json", 0, Put(MakeDeltas(DeltasLen + 1), DeltasLen, 1), 1),
   FileOf("json", 0, Put(MakeDeltas(DeltasLen), 0, 1), 0)}

InitForeign ==
  /\ Fresh
  /\ file \in ForeignFiles
  /\ snap = NoSnap
  /\ ticks = 0
  /\ requests = 0
  /\ runs = 1
  /\ scn = [phase |-> 0, first |-> 0, second |-> 0, rots |-> 0]

SpecForeign == InitForeign /\ [][NextSeq]_vars

\* ------------------------------------------------------------ the scenario
\* A cold start, a burst of Increment calls, a Rotate, a second burst, a
\* Rotate, and then Rotate calls alone for one whole window.
ScnLoad ==
  /\ scn.phase = 0
  /\ reqCnt' = initCounter(reqCnt, file, TRUE, TRUE).c
  /\ scn' = [scn EXCEPT !.phase = 1]
  /\ UNCHANGED <<cntMutex, file, pcMain, pc, localVars, snap, runVars,
                 histVars, capVars>>

ScnIncrement ==
  /\ \/ /\ scn.phase = 1
        /\ scn.first < ScnFirst
        /\ scn' = [scn EXCEPT !.first = @ + 1]
     \/ /\ scn.phase = 2
        /\ scn.second < ScnSecond
        /\ scn' = [scn EXCEPT !.second = @ + 1]
  /\ reqCnt' = increment(reqCnt)
  /\ UNCHANGED <<cntMutex, file, pcMain, pc, localVars, snap, runVars,
                 histVars, capVars>>

ScnRotate ==
  /\ IdxInRange(WrapIdx(reqCnt))
  /\ \/ /\ scn.phase \in {1, 2}
        /\ scn' = [scn EXCEPT !.phase = @ + 1]
     \/ /\ scn.phase = 3
        /\ scn.rots < WindowSecs
        /\ scn' = [scn EXCEPT !.rots = @ + 1]
  /\ reqCnt' = updateTimeWindow(reqCnt)
  /\ UNCHANGED <<cntMutex, file, pcMain, pc, localVars, snap, runVars,
                 histVars, capVars>>

NextScenario ==
  \/ ScnLoad
  \/ ScnIncrement
  \/ ScnRotate

SpecScenario == InitSeq /\ [][NextScenario]_vars

\* ------------------------------------------------------------------ claims
\* The periodic task is inside updateTimeWindow()'s critical section.
RotInProgress ==
  pc[Ticker] \in {"rot_wrap", "rot_sub", "rot_add", "rot_store", "rot_reset",
                  "rot_next", "rot_unlock"}

AllZero(ds) == \A i \in 0..(ds.len - 1) : At(ds, i) = 0

\* The file the concurrent specification may start from is one the program
\* writes after a cold start.
PriorRunReached == reqCnt = PriorRunCounter /\ file = PriorRunFile

\* C1: whenever no critical section is open, the number of increment() calls
\* that have returned equals timeLapseReqNo plus the sum of the values that
\* updateTimeWindow() has stored in deltas: no call is lost and none is
\* counted on both sides of a rotation.
C1_CountedOnce ==
  cntMutex = Unlocked => incDone = reqCnt.timeLapseReqNo + rotated

\* C1 witness: calls have been counted on both sides of a rotation.
C1_Witness ==
  /\ cntMutex = Unlocked
  /\ incDone = 2
  /\ rotated = 1
  /\ reqCnt.timeLapseReqNo = 1

\* C2: the total a handler reads is the total the last updateTimeWindow()
\* left plus one for every increment() that has returned since, however the
\* calls were interleaved.
C2_NoLostUpdate ==
  \A h \in Handlers :
    pc[h] = "rd_unlock" => resp[h].count = U64Add(base, sinceRot)

\* C2 witness: two calls that overlapped (one waited for the other) are both
\* in the total that is read.
C2_Witness ==
  \E h \in Handlers :
    /\ pc[h] = "rd_unlock"
    /\ contended
    /\ sinceRot = 2
    /\ base = 1
    /\ resp[h].count = 3

\* C3: outside updateTimeWindow() timeWindowReqNo is the sum of deltas, and
\* the subtraction of the evicted entry never wraps below zero.
C3_SumInvariant ==
  /\ ~Wrapped(reqCnt.timeWindowReqNo)
  /\ ~RotInProgress => reqCnt.timeWindowReqNo = SumSeq(reqCnt.deltas)

\* C3 witness: a non-zero entry has just been subtracted, after a reload.
C3_Witness ==
  /\ pc[Ticker] = "rot_add"
  /\ runs = 2
  /\ At(reqCnt.deltas, reqCnt.deltaIdx) = 1
  /\ reqCnt.timeLapseReqNo = 1
  /\ reqCnt.timeWindowReqNo = 1

\* C4 as stated: deltaIdx, in memory and in the file, is always below the
\* window size.
C4_CursorBelowWindow ==
  /\ reqCnt.deltaIdx < WindowSecs
  /\ file.DeltaIdx < WindowSecs

\* C4 as amended: deltaIdx, in memory and in the file, is between 0 and the
\* window size inclusive, and each updateTimeWindow() leaves it one past the
\* position it wrote, which is deltaIdx, or 0 when deltaIdx is the window size.
C4_CursorRange ==
  /\ [](/\ reqCnt.deltaIdx \in 0..WindowSecs
        /\ file.DeltaIdx \in 0..WindowSecs)
  /\ [][(pc[Ticker] = "sleep" /\ pc'[Ticker] = "fl_lock")
          => reqCnt'.deltaIdx = (reqCnt.deltaIdx % WindowSecs) + 1]_vars

\* C4 witness: deltaIdx has reached the window size and has been written
\* to the file.
C4_Witness ==
  /\ reqCnt.deltaIdx = WindowSecs
  /\ file.kind = "json"
  /\ file.DeltaIdx = WindowSecs

\* C5: the count a handler reports is timeWindowReqNo + timeLapseReqNo as
\* they stand while it holds the mutex, no updateTimeWindow() is under way
\* while it reads, and its two loads change no field of the counter.
C5_AtomicRead ==
  /\ [](\A h \in Handlers :
          /\ pc[h] = "rd_unlock" => resp[h].count = WindowTotal(reqCnt)
          /\ pc[h] \in {"rd_window", "rd_lapse", "rd_unlock"} => ~RotInProgress)
  /\ [][\A h \in Handlers :
          (\/ pc[h] = "rd_window" /\ pc'[h] = "rd_lapse"
           \/ pc[h] = "rd_lapse" /\ pc'[h] = "rd_unlock")
            => reqCnt' = reqCnt]_vars

\* C5 witness: a handler has read the total while the periodic task waits to
\* rotate, with requests both in the window and in the current second.
C5_Witness ==
  \E h \in Handlers :
    /\ pc[h] = "rd_unlock"
    /\ pc[Ticker] = "rot_lock"
    /\ reqCnt.timeWindowReqNo = 1
    /\ reqCnt.timeLapseReqNo = 2
    /\ resp[h].count = 3

\* The scenario's bursts were both complete.
ScnFull == scn.first = ScnFirst /\ scn.second = ScnSecond

ScnUpToSecondRotate ==
  /\ (scn.phase = 2 /\ scn.first = ScnFirst /\ scn.second = 0)
       => WindowTotal(reqCnt) = ScnFirst
  /\ (scn.phase = 2 /\ ScnFull) => WindowTotal(reqCnt) = ScnFirst + ScnSecond
  /\ (scn.phase = 3 /\ ScnFull /\ scn.rots = 0)
       => WindowTotal(reqCnt) = ScnFirst + ScnSecond

\* C6 as stated: 5 after the first rotation, 8 after the second burst, 8
\* after the second rotation, 0 after 59 further rotations.
C6_Scenario ==
  /\ ScnUpToSecondRotate
  /\ (scn.phase = 3 /\ ScnFull /\ scn.rots = WindowSecs - 1)
       => WindowTotal(reqCnt) = 0

\* C6 as amended: 5, 8 and 8 as stated; after 59 further rotations the total
\* is the second burst (only the first bucket has left the window), and
\* after 60 further rotations it is 0.
C6_ScenarioAmended ==
  /\ ScnUpToSecondRotate
  /\ (scn.phase = 3 /\ ScnFull /\ scn.rots = WindowSecs - 1)
       => WindowTotal(reqCnt) = ScnSecond
  /\ (scn.phase = 3 /\ ScnFull /\ scn.rots = WindowSecs)
       => WindowTotal(reqCnt) = 0

\* C6 witness: the scenario has run to its 59th further rotation.
C6_Witness ==
  /\ scn.phase = 3
  /\ ScnFull
  /\ scn.rots = WindowSecs - 1
  /\ WindowTotal(reqCnt) = ScnSecond

\* C7 as stated: after 60 or more updateTimeWindow() calls with no
\* increment() among them the total is 0 and every entry of deltas is 0.
C7_DecayAfterWindow ==
  quiet >= WindowSecs => (WindowTotal(reqCnt) = 0 /\ AllZero(reqCnt.deltas))

\* C7 as amended: after 61 or more such calls the total is 0 and every entry
\* is 0; after exactly 60 the only entry that can be non-zero is the one the
\* first of them wrote (the requests pending when they began), and the total
\* is that entry.
C7_DecayAmended ==
  /\ quiet > WindowSecs => (WindowTotal(reqCnt) = 0 /\ AllZero(reqCnt.deltas))
  /\ quiet = WindowSecs =>
       /\ \A i \in 0..(reqCnt.deltas.len - 1) :
            i # WrapIdx(reqCnt).deltaIdx => At(reqCnt.deltas, i) = 0
       /\ WindowTotal(reqCnt) = At(reqCnt.deltas, WrapIdx(reqCnt).deltaIdx)

\* C7 witness: requests were rotated into the window and have decayed out.
C7_Witness ==
  /\ quiet > WindowSecs
  /\ rotated = 2
  /\ pcMain = "serving"
  /\ WindowTotal(reqCnt) = 0

\* C8 as stated: a counter that init() leaves after a restart on the file a
\* completed updateFile() wrote has the deltaIdx, deltas and timeWindowReqNo
\* that updateFile() marshalled, and a timeLapseReqNo of 0.  It fails when
\* os.Stat fails on that file: loadFile() returns without reading it and the
\* counter is all zero (C8_HistoryIgnored).
C8_RoundTrip ==
  (pcMain = "loaded" /\ snap.valid) =>
    /\ reqCnt.deltaIdx = snap.c.deltaIdx
    /\ reqCnt.deltas = snap.c.deltas
    /\ reqCnt.timeWindowReqNo = snap.c.timeWindowReqNo
    /\ reqCnt.timeLapseReqNo = 0

\* C8 witness: the flushed counter had requests in the window and requests
\* not yet rotated, and has been loaded again.
C8_Witness ==
  /\ pcMain = "loaded"
  /\ snap.valid
  /\ snap.c.timeLapseReqNo = 1
  /\ snap.c.timeWindowReqNo = 2
  /\ snap.c.deltaIdx = WindowSecs

\* C8, the run that refutes it: the flushed history was not read back.
C8_HistoryIgnored ==
  /\ pcMain = "loaded"
  /\ snap.valid
  /\ loadErr = "stat"
  /\ snap.c.timeWindowReqNo = 2
  /\ reqCnt.timeWindowReqNo = 0
  /\ AllZero(reqCnt.deltas)

\* C8 where the file was read: whenever loadFile() got past os.Stat, the
\* counter is the one updateFile() marshalled.
C8_RoundTripWhenRead ==
  (pcMain = "loaded" /\ snap.valid /\ loadErr = "nil") =>
    /\ reqCnt.deltaIdx = snap.c.deltaIdx
    /\ reqCnt.deltas = snap.c.deltas
    /\ reqCnt.timeWindowReqNo = snap.c.timeWindowReqNo
    /\ reqCnt.timeLapseReqNo = 0

\* C9: with no file, init() installs the zero counter with 60 entries and
\* main goes on; a fatal load never happens with no file.
C9_ColdStart ==
  /\ (pcMain = "loaded" /\ file.kind = "absent") =>
       /\ reqCnt = [ZeroCounter EXCEPT !.deltas = MakeDeltas(60)]
       /\ loadErr = "nil"
       /\ exitBy = "none"
  /\ exitBy = "load" => file.kind # "absent"

\* C9 witness: a cold start has completed.
C9_Witness ==
  /\ pcMain = "loaded"
  /\ file.kind = "absent"
  /\ reqCnt.deltas.len = 60
  /\ AllZero(reqCnt.deltas)

\* C10 as stated: when the file exists and cannot be loaded (loadErr is not
\* "nil") the process is halted in init(): no goroutine is started, nothing
\* is counted or rotated, and the file is left as it was.  It holds of
\* the open and decode errors, and fails of the os.Stat error: a file that
\* exists and whose Stat fails is taken for an absent one, so the process starts from zero without any fatal error and goes on
\* to serve, and its next updateFile() replaces the file.
C10_FatalLoad ==
  /\ [](loadErr # "nil" =>
          /\ pcMain = "exited"
          /\ exitBy = "load"
          /\ \A p \in Procs : pc[p] = "off"
          /\ incDone = 0
          /\ rotated = 0)
  /\ [][loadErr' # "nil" => file' = file]_vars

\* C10 witness: a file left truncated by an interrupted write has halted the
\* next start.
C10_Witness ==
  /\ loadErr = "decode"
  /\ pcMain = "exited"
  /\ file.kind = "empty"

\* C10, the run that refutes it: a file that cannot be decoded was skipped
\* because os.Stat failed, and the process is serving requests.
C10_SilentColdStart ==
  /\ loadErr = "stat"
  /\ pcMain = "serving"
  /\ exitBy = "none"
  /\ file.kind = "garbage"
  /\ incDone > 0

\* C10, what follows: the file an earlier run wrote was skipped in the same
\* way, and updateFile() has replaced it with the history of a counter that
\* started from zero.
C10_HistoryReplaced ==
  /\ loadErr = "stat"
  /\ wrErr = "nil"
  /\ file.kind = "json"
  /\ file # PriorRunFile
  /\ file.DeltaIdx < WindowSecs - 1

\* C11: once ioutil.WriteFile has returned an error, in the periodic task's
\* updateFile() or in the signal task's, the process is halted for that
\* reason with every goroutine gone, and from then on nothing changes the
\* counter or the file and no goroutine moves: the write is not tried again.
C11_FatalWrite ==
  /\ [](wrErr # "nil" =>
          /\ pcMain = "exited"
          /\ exitBy = "write"
          /\ \A p \in Procs : pc[p] = "off")
  /\ [][wrErr # "nil" =>
          /\ file' = file
          /\ snap' = snap
          /\ reqCnt' = reqCnt
          /\ pc' = pc]_vars

\* C11 witness: the signal task's write failed after the file was truncated
\* (no periodic wake-up has happened yet), and the process is halted.
C11_Witness ==
  /\ wrErr = "write"
  /\ exitBy = "write"
  /\ ticks = 0
  /\ file.kind = "empty"

\* Where a goroutine is between cntMutex.Lock() returning and Unlock().
IncCS == {"inc_load", "inc_store", "inc_unlock"}
RdCS  == {"rd_window", "rd_lapse", "rd_unlock"}
RotCS == {"rot_wrap", "rot_sub", "rot_add", "rot_store", "rot_reset",
          "rot_next", "rot_unlock"}
FlCS  == {"fl_marshal", "fl_open", "fl_write", "fl_unlock"}
InCS(p) == pc[p] \in IncCS \cup RdCS \cup RotCS \cup FlCS

\* C12: increment(), updateTimeWindow(), the read of printRequestNo and
\* updateFile() exclude one another: at most one goroutine is inside a
\* critical section on the counter, and it is the one that locked cntMutex.
C12_MutualExclusion ==
  /\ \A p, q \in Procs : (InCS(p) /\ InCS(q)) => p = q
  /\ \A p \in Procs : InCS(p) <=> cntMutex = p

\* C12 witness: the periodic task is inside updateTimeWindow() while a
\* handler waits to increment, another waits to read, and the signal task
\* waits to flush.
C12_Witness ==
  /\ pc[Ticker] = "rot_store"
  /\ pc[SigH] = "fl_lock"
  /\ \E h, g \in Handlers : pc[h] = "inc_lock" /\ pc[g] = "rd_lock"

\* A goroutine is inside ioutil.WriteFile.
Writing(p) == pc[p] \in {"fl_open", "fl_write"}

\* C13: every JSON document that reaches the file is deltaIdx, deltas and
\* timeWindowReqNo of the counter as it stands at the write, with no
\* updateTimeWindow() under way; its TimeWindowReqNo is the sum of its
\* Deltas; and while one goroutine is inside WriteFile the other is not, so
\* a file truncated by one write is completed by that same write.
C13_SnapshotConsistent ==
  /\ [](/\ file.kind = "json" => file.TimeWindowReqNo = SumSeq(file.Deltas)
        /\ ~(Writing(Ticker) /\ Writing(SigH))
        /\ \A p \in Flushers : pc[p] = "fl_write" => file.kind = "empty")
  /\ [][(file' # file /\ file'.kind = "json") =>
          /\ \E p \in Flushers : pc[p] = "fl_write" /\ pc'[p] = "fl_unlock"
          /\ ~RotInProgress
          /\ file'.DeltaIdx = reqCnt.deltaIdx
          /\ file'.Deltas = reqCnt.deltas
          /\ file'.TimeWindowReqNo = reqCnt.timeWindowReqNo]_vars

\* C13 witness: the signal task has written a snapshot between an
\* updateTimeWindow() and the periodic updateFile() that follows it, with
\* requests in the window and a request not yet rotated.
C13_Witness ==
  /\ pc[SigH] = "fl_unlock"
  /\ pc[Ticker] = "fl_lock"
  /\ snap.by = SigH
  /\ file.kind = "json"
  /\ file.TimeWindowReqNo = 1
  /\ reqCnt.timeLapseReqNo = 1

\* C14 as stated: when os.Exit(0) of the signal task ends the process, the
\* periodic task is not inside updateFile(), and the file left behind is the
\* complete snapshot the signal task's updateFile() wrote.
C14_FinalFlush ==
  /\ [](exitBy = "sigint" =>
          /\ file.kind = "json"
          /\ snap.valid
          /\ snap.by = SigH
          /\ file = Marshal(snap.c))
  /\ [][(pc[SigH] = "sig_exit" /\ exitBy' = "sigint") =>
          pc[Ticker] \notin FlCS]_vars

\* The periodic task has truncated the file and os.Exit(0) has ended the
\* process before the bytes were written.
C14_TornAtExit == exitBy = "sigint" /\ file.kind = "empty"

\* The periodic task has completed an updateFile() after the signal task's,
\* before os.Exit(0) ended the process.
C14_OvertakenAtExit ==
  exitBy = "sigint" /\ file.kind = "json" /\ snap.by = Ticker

\* The signal task has received os.Interrupt and has not yet ended the process.
Signalled == pc[SigH] \in {"fl_lock", "sig_exit"} \cup FlCS

\* C15: once os.Interrupt has been received the process ends, whatever the
\* handlers and the periodic task are doing and whether the signal task's
\* write succeeds or fails.
C15_SignalTerminates == Signalled ~> pcMain = "exited"

\* C15 witness: os.Exit(0) of the signal task has ended a process that had
\* served requests and run the periodic task.
C15_Witness ==
  /\ exitBy = "sigint"
  /\ requests >= 1
  /\ ticks >= 1
  /\ snap.by = SigH

\* Handlers that have been given a GET for "/" and whose increment() has
\* not returned yet.
Incrementing == {h \in Handlers : pc[h] \in {"inc_lock"} \cup IncCS}

\* C16: a request that is not a GET for "/" is answered 404 or 405 in the
\* step that accepts it, which leaves the counter as it is and the process
\* serving; a GET for "/" goes on to increment(); and the increment() calls
\* made are one for each GET for "/" accepted.
C16_ClientErrorFrame ==
  /\ [](gets = incDone + Cardinality(Incrementing))
  /\ [][\A h \in Handlers :
          (pc[h] = "idle" /\ pc'[h] # "idle" /\ pcMain' # "exited") =>
            IF gets' = gets
              THEN /\ pc'[h] = "done"
                   /\ resp'[h].status \in {StatusNotFound, StatusMethodNotAllowed}
                   /\ reqCnt' = reqCnt
                   /\ pcMain' = "serving"
                   /\ incDone' = incDone
              ELSE /\ pc'[h] = "inc_lock"
                   /\ gets' = gets + 1]_vars

\* C16 witness: of two requests one was a GET for "/", counted once and
\* answered, and the other was refused and its handler is free again.
C16_Witness ==
  /\ runs = 1
  /\ requests = 2
  /\ gets = 1
  /\ incDone = 1
  /\ \E h, g \in Handlers :
       /\ pc[h] = "done"
       /\ resp[h].status = StatusOK
       /\ resp[h].count = 1
       /\ pc[g] = "idle"
       /\ g # h

\* The position updateTimeWindow() writes: deltaIdx, or 0 when deltaIdx is
\* the window size.
WritePos(c) == IF c.deltaIdx = WindowSecs THEN 0 ELSE c.deltaIdx

\* C17: one updateTimeWindow() with timeLapseReqNo = N and write position c
\* stores N in deltas[c], takes the old deltas[c] out of timeWindowReqNo and
\* adds N to it, sets timeLapseReqNo to 0 and changes no other entry of
\* deltas; the total read right after it is the sum of the values stored by
\* the last WindowSecs calls (by all of them while there are fewer).
C17_RotateStep ==
  [][(pc[Ticker] = "sleep" /\ pc'[Ticker] = "fl_lock") =>
       LET c == WritePos(reqCnt)
           N == reqCnt.timeLapseReqNo
       IN  /\ At(reqCnt'.deltas, c) = N
           /\ reqCnt'.timeWindowReqNo =
                reqCnt.timeWindowReqNo - At(reqCnt.deltas, c) + N
           /\ reqCnt'.timeLapseReqNo = 0
           /\ reqCnt'.deltas.len = reqCnt.deltas.len
           /\ \A i \in 0..(WindowSecs - 1) :
                i # c => At(reqCnt'.deltas, i) = At(reqCnt.deltas, i)
           /\ WindowTotal(reqCnt') = SumPairs(recent')]_vars

\* C17 witness: the 61st call has just written position 0 again, taking the
\* request stored there by the first call out of the total.
C17_Witness ==
  /\ pc[Ticker] = "fl_lock"
  /\ reqCnt.deltaIdx = 1
  /\ quiet = WindowSecs
  /\ rotated = 2
  /\ At(reqCnt.deltas, 0) = 0
  /\ At(reqCnt.deltas, 1) = 1
  /\ reqCnt.timeWindowReqNo = 1
  /\ recent = {<<WindowSecs, 1>>}

\* C18: the periodic task alternates updateTimeWindow() and updateFile(),
\* updateTimeWindow() first: the calls of the first that have returned are
\* as many as those of the second, or one more; no other goroutine is ever
\* inside updateTimeWindow(); and every updateTimeWindow() that has returned
\* is followed by the return of the periodic updateFile(), unless the
\* process ends first.
C18_RotateThenFlush ==
  /\ [](/\ unflushed \in {0, 1}
        /\ unflushed = 1 <=> pc[Ticker] \in {"fl_lock"} \cup FlCS
        /\ \A p \in Procs \ {Ticker} : pc[p] \notin {"rot_lock"} \cup RotCS)
  /\ (unflushed = 1) ~> (unflushed = 0)

\* C18 witness: the second updateTimeWindow() has returned after the first
\* periodic updateFile(), and the periodic task waits for the mutex while a
\* handler is inside increment().
C18_Witness ==
  /\ unflushed = 1
  /\ flushed
  /\ ticks = 2
  /\ pc[Ticker] = "fl_lock"
  /\ \E h \in Handlers : pc[h] \in IncCS

\* A file with the shape updateTimeWindow() can work on.
WellShaped(f) ==
  /\ f.DeltaIdx <= WindowSecs
  /\ f.Deltas.len = DeltasLen
  /\ f.TimeWindowReqNo = SumSeq(f.Deltas)

\* C19 as stated: a counter that loadFile() has installed has deltaIdx at
\* most the window size, 60 deltas and timeWindowReqNo equal to their sum,
\* so that updateTimeWindow() never indexes deltas out of range and
\* timeWindowReqNo never wraps below zero; and a file that has not this shape
\* is never loaded.
C19_LoadValidates ==
  /\ pcMain \in {"loaded", "listen", "serving"} =>
       /\ reqCnt.deltaIdx <= WindowSecs
       /\ reqCnt.deltas.len = DeltasLen
       /\ reqCnt.timeWindowReqNo = SumSeq(reqCnt.deltas)
  /\ pcMain = "loaded" => WellShaped(file)
  /\ exitBy # "panic"
  /\ ~Wrapped(reqCnt.timeWindowReqNo)

\* The first updateTimeWindow() after a DeltaIdx of 61 was loaded has
\* indexed deltas out of range.
C19_PanicReached == exitBy = "panic" /\ file.DeltaIdx = WindowSecs + 1

\* timeWindowReqNo has wrapped below zero, in memory and in the file.
C19_WrappedReached ==
  /\ Wrapped(reqCnt.timeWindowReqNo)
  /\ file.kind = "json"
  /\ Wrapped(file.TimeWindowReqNo)

\* The fields of the counter that updateFile() writes.
Persisted(c) == <<c.deltaIdx, c.deltas, c.timeWindowReqNo>>

\* Nothing is being written and the periodic task owes no updateFile().
Settled ==
  /\ pcMain \in {"listen", "serving"}
  /\ flushed
  /\ unflushed = 0
  /\ ~RotInProgress
  /\ \A p \in Flushers : pc[p] \notin FlCS

\* C20: deltaIdx, deltas and timeWindowReqNo change only in a step of
\* updateTimeWindow(), in init() and when the process ends; so once an
\* updateFile() has returned, whenever no updateFile() is under way and the
\* periodic task is not at or between updateTimeWindow() and its
\* updateFile(), the file holds these three fields as they are in memory.
C20_PersistedFrame ==
  /\ [](Settled =>
          /\ file.kind = "json"
          /\ file.DeltaIdx = reqCnt.deltaIdx
          /\ file.Deltas = reqCnt.deltas
          /\ file.TimeWindowReqNo = reqCnt.timeWindowReqNo)
  /\ [][Persisted(reqCnt') # Persisted(reqCnt) =>
          \/ cntMutex = Ticker /\ pc[Ticker] \in RotCS
          \/ pcMain = "init"
          \/ pcMain' = "exited"]_vars

\* C20 witness: after a periodic updateFile() a request was counted and the
\* signal task has flushed in its turn; the file still equals the memory.
C20_Witness ==
  /\ Settled
  /\ pc[Ticker] = "sleep"
  /\ pc[SigH] = "sig_exit"
  /\ snap.by = SigH
  /\ ticks >= 1
  /\ reqCnt.timeWindowReqNo = 1
  /\ reqCnt.timeLapseReqNo = 1
====
